---------------------------- MODULE Spec2Model ----------------------------
(***************************************************************************)
(* Inverted-index core of Indexation-Lab1: the GAP + VByte postings codec  *)
(* (compression.py), in-place index maintenance (maintenance.py), and the  *)
(* sequential and process-pool index builders (preprocess_build_index.py,  *)
(* parallel_indexing.py).                                                  *)
(*                                                                         *)
(* An index (Python dict term -> list) is a function whose DOMAIN is the   *)
(* set of keys; a Python list is a sequence; a Python set is a set.  A     *)
(* call that raises is the record Raise; a call that returns v is          *)
(* Return(v).                                                              *)
(***************************************************************************)
EXTENDS Integers, Sequences, FiniteSets, TLC

VARIABLES
    \* ---- codec (compression.py) ----
    cpc,               \* position of the codec caller
    n,                 \* argument of vbyte_encode_number
    byte_list,         \* a byte stream: the encoder's output / the decoder's input
    numbers,           \* outcome of vbyte_decode_stream(byte_list)
    index_in,          \* argument of compress_index
    compressed_index,  \* a compact index: term -> byte stream
    decompressed,      \* outcome of decompress_index(compressed_index)
    sorted_ids,        \* argument of gap_encode
    gaps_out,          \* what gap_encode returned
    ids_out,           \* what gap_decode(gaps_out) returned
    \* ---- maintenance (maintenance.py) ----
    index,             \* the index mutated in place
    prev_index,        \* the index before the last call
    last_call,         \* the last maintenance call and its arguments
    repeat,            \* the last call had the same arguments as the one before
    fresh_add,         \* an add_document of a doc id new to the index, and whether
                       \* remove_document of that id followed it
    \* ---- builders (preprocess_build_index.py, parallel_indexing.py) ----
    preprocessed_docs, \* the tokenized corpus
    n_workers_arg,     \* the worker count the caller passes
    spc,               \* position of the sequential build
    index_seq,         \* outcome of build_inverted_index
    bpc,               \* position of build_inverted_index_parallel
    chunks,            \* the chunks handed to pool.map
    task,              \* per chunk: "pending", "running", "done", "failed"
    partial_indexes,   \* per chunk: the worker's partial index
    global_index,      \* the merge accumulator (term -> set of doc ids)
    merged,            \* number of partial indexes merged so far
    index_par          \* the index build_inverted_index_parallel returns

gap_vars == <<sorted_ids, gaps_out, ids_out>>
codec_vars == <<cpc, n, byte_list, numbers, index_in, compressed_index, decompressed,
                gap_vars>>
maint_vars == <<index, prev_index, last_call, repeat, fresh_add>>
build_vars == <<preprocessed_docs, n_workers_arg, spc, index_seq, bpc, chunks, task,
                partial_indexes, global_index, merged, index_par>>
vars == <<codec_vars, maint_vars, build_vars>>

----------------------------------------------------------------------------
(* Outcomes of a call *)

Raise == [raised |-> TRUE]
Return(v) == [raised |-> FALSE, value |-> v]

\* The content of an outcome variable before the call is made.
NotCalled == [raised |-> FALSE]

\* The dict with no keys.
EmptyDict == [t \in {} |-> <<>>]

----------------------------------------------------------------------------
(* Python's integer operators on non-negative ints, bit by bit *)

RECURSIVE BitAnd(_, _)
BitAnd(x, y) ==
    IF x = 0 \/ y = 0 THEN 0
    ELSE (x % 2) * (y % 2) + 2 * BitAnd(x \div 2, y \div 2)

RECURSIVE BitOr(_, _)
BitOr(x, y) ==
    IF x = 0 THEN y
    ELSE IF y = 0 THEN x
    ELSE (IF x % 2 = 1 \/ y % 2 = 1 THEN 1 ELSE 0) + 2 * BitOr(x \div 2, y \div 2)

ShiftRight(x, k) == x \div (2 ^ k)
ShiftLeft(x, k) == x * (2 ^ k)

----------------------------------------------------------------------------
(* compression.py *)

\* A gap_encode that subtracts the first posting instead of the previous one.
gap_encode_from_first(postings) ==
    IF postings = <<>> THEN <<>>
    ELSE [i \in 1..Len(postings) |->
            IF i = 1 THEN postings[1] ELSE postings[i] - postings[1]]

\* gap_encode: [p0, p1 - p0, p2 - p1, ...]
gap_encode(postings) ==
    IF postings = <<>> THEN <<>>
    ELSE [i \in 1..Len(postings) |->
            IF i = 1 THEN postings[1] ELSE postings[i] - postings[i - 1]]

\* gap_decode's loop: postings.append(postings[-1] + g) for g in gaps[1:]
RECURSIVE gap_decode_loop(_, _)
gap_decode_loop(postings, rest) ==
    IF rest = <<>> THEN postings
    ELSE gap_decode_loop(Append(postings, postings[Len(postings)] + Head(rest)),
                         Tail(rest))

\* A gap_decode that forgets the running sum.
gap_decode_no_sum(gaps) == gaps

gap_decode(gaps) ==
    IF gaps = <<>> THEN <<>>
    ELSE gap_decode_loop(<<gaps[1]>>, Tail(gaps))

RECURSIVE vbyte_encode_loop(_, _)

\* An encoder loop that tests n > 128 instead of n >= 128.
vbyte_encode_loop_gt(m, bytes_) ==
    IF m > 128
    THEN vbyte_encode_loop(ShiftRight(m, 7), Append(bytes_, BitAnd(m, 127)))
    ELSE Append(bytes_, BitOr(m, 128))

\* vbyte_encode_number's while loop: peel 7 bits off the low end while n >= 128,
\* then emit the rest with the MSB set.
vbyte_encode_loop(m, bytes_) ==
    IF m >= 128
    THEN vbyte_encode_loop(ShiftRight(m, 7), Append(bytes_, BitAnd(m, 127)))
    ELSE Append(bytes_, BitOr(m, 128))

\* An encoder that emits the most significant group first (the prepend order),
\* the terminator still on the last byte.
vbyte_encode_number_prepend(m) ==
    IF m < 0 THEN Raise
    ELSE LET le == vbyte_encode_loop(m, <<>>)
             k == Len(le)
         IN  Return([i \in 1..k |->
                       (le[k + 1 - i] % 128) + (IF i = k THEN 128 ELSE 0)])

vbyte_encode_number(m) ==
    IF m < 0 THEN Raise ELSE Return(vbyte_encode_loop(m, <<>>))

RECURSIVE vbyte_decode_loop(_, _, _, _)

\* A decoder loop that advances the shift by 8 bits per byte.
vbyte_decode_loop_shift8(bytes_, nums, current, shift) ==
    IF bytes_ = <<>> THEN [numbers |-> nums, current |-> current, shift |-> shift]
    ELSE LET b == Head(bytes_)
             cur == BitOr(current, ShiftLeft(BitAnd(b, 127), shift))
         IN  IF BitAnd(b, 128) # 0
             THEN vbyte_decode_loop(Tail(bytes_), Append(nums, cur), 0, 0)
             ELSE vbyte_decode_loop(Tail(bytes_), nums, cur, shift + 8)

\* vbyte_decode_stream's for loop over the bytes; the loop state is
\* (numbers, current, shift).
vbyte_decode_loop(bytes_, nums, current, shift) ==
    IF bytes_ = <<>> THEN [numbers |-> nums, current |-> current, shift |-> shift]
    ELSE LET b == Head(bytes_)
             cur == BitOr(current, ShiftLeft(BitAnd(b, 127), shift))
         IN  IF BitAnd(b, 128) # 0
             THEN vbyte_decode_loop(Tail(bytes_), Append(nums, cur), 0, 0)
             ELSE vbyte_decode_loop(Tail(bytes_), nums, cur, shift + 7)

\* A decoder without the final shift != 0 test.
vbyte_decode_stream_no_check(bytes_) ==
    Return(vbyte_decode_loop(bytes_, <<>>, 0, 0).numbers)

vbyte_decode_stream(bytes_) ==
    LET end == vbyte_decode_loop(bytes_, <<>>, 0, 0)
    IN  IF end.shift # 0 THEN Raise ELSE Return(end.numbers)

\* vbyte_encode_postings: result.extend(vbyte_encode_number(g)) for g in gaps.
\* A negative gap makes vbyte_encode_number raise, and so the whole call.
RECURSIVE vbyte_encode_postings_loop(_, _)
vbyte_encode_postings_loop(gaps, result) ==
    IF gaps = <<>> THEN Return(result)
    ELSE LET e == vbyte_encode_number(Head(gaps))
         IN  IF e.raised THEN Raise
             ELSE vbyte_encode_postings_loop(Tail(gaps), result \o e.value)

vbyte_encode_postings(gaps) == vbyte_encode_postings_loop(gaps, <<>>)

vbyte_decode_postings(bytes_) == vbyte_decode_stream(bytes_)

\* compress_index: term by term; an exception in any term leaves the call.
compress_index(idx) ==
    LET enc == [t \in DOMAIN idx |-> vbyte_encode_postings(gap_encode(idx[t]))]
    IN  IF \E t \in DOMAIN idx : enc[t].raised THEN Raise
        ELSE Return([t \in DOMAIN idx |-> enc[t].value])

\* decompress_index: term by term; an exception in any term leaves the call.
decompress_index(cidx) ==
    LET dec == [t \in DOMAIN cidx |-> vbyte_decode_postings(cidx[t])]
    IN  IF \E t \in DOMAIN cidx : dec[t].raised THEN Raise
        ELSE Return([t \in DOMAIN cidx |-> gap_decode(dec[t].value)])

----------------------------------------------------------------------------
(* The codec's callers: inputs and steps *)

Terms == {"a", "b"}

\* Numbers handed to vbyte_encode_number: -1, a dense prefix, and the values
\* around the 7-bit group boundaries 2^7, 2^14, 2^21.
MaxNumber == 300
Numbers == (-1..MaxNumber) \cup {16383, 16384, 16385, 2097151, 2097152}

\* Byte streams handed to vbyte_decode_stream.
MaxStreamLen == 3
ByteChoices == {0, 1, 127, 128, 129, 255}
SeqsUpTo(S, k) == UNION {[1..m -> S] : m \in 0..k}
ByteStreams == SeqsUpTo(ByteChoices, MaxStreamLen)

\* Doc ids of the indexes handed to compress_index.
MaxCodecDocId == 2
CodecDocIds == (0..MaxCodecDocId) \cup {127, 128, 16384}

\* The strictly increasing sequence of the elements of the set S
\* (what sorted(S) returns for a set of ints).
RECURSIVE sorted(_)
sorted(S) ==
    IF S = {} THEN <<>>
    ELSE LET m == CHOOSE x \in S : \A y \in S : x <= y
         IN  <<m>> \o sorted(S \ {m})

StrictlyIncreasing(s) == \A i \in 1..(Len(s) - 1) : s[i] < s[i + 1]

\* An index is valid when every postings list is non-empty and strictly
\* increasing.
ValidIndex(idx) ==
    \A t \in DOMAIN idx : idx[t] # <<>> /\ StrictlyIncreasing(idx[t])

\* All valid indexes over the terms T and the doc ids D.
IndexesOver(T, D) ==
    UNION {[K -> {sorted(P) : P \in (SUBSET D) \ {{}}}] : K \in SUBSET T}

\* Compact indexes that no compress_index produced: term -> arbitrary bytes.
MaxCompactLen == 2
CompactBytes == {0, 5, 128, 133}
CompactIndexes ==
    UNION {[K -> SeqsUpTo(CompactBytes, MaxCompactLen)] : K \in SUBSET Terms}

\* Postings lists handed to gap_encode: sorted, duplicate-free, possibly empty.
PostingsLists == {sorted(P) : P \in SUBSET CodecDocIds}

CodecIdle ==
    /\ cpc = "idle" /\ n = 0 /\ byte_list = <<>> /\ numbers = NotCalled
    /\ index_in = EmptyDict /\ compressed_index = EmptyDict /\ decompressed = NotCalled
    /\ sorted_ids = <<>> /\ gaps_out = <<>> /\ ids_out = <<>>

\* The caller holds one input: a number to encode, a byte stream to decode, an
\* index to compress, a compact index to decompress, or a postings list to
\* gap-encode.
InitCodecInputs ==
    /\ numbers = NotCalled /\ decompressed = NotCalled
    /\ gaps_out = <<>> /\ ids_out = <<>>
    /\ \/ /\ cpc = "number" /\ n \in Numbers /\ byte_list = <<>>
          /\ index_in = EmptyDict /\ compressed_index = EmptyDict
          /\ sorted_ids = <<>>
       \/ /\ cpc = "stream" /\ n = 0 /\ byte_list \in ByteStreams
          /\ index_in = EmptyDict /\ compressed_index = EmptyDict
          /\ sorted_ids = <<>>
       \/ /\ cpc = "index" /\ n = 0 /\ byte_list = <<>>
          /\ index_in \in IndexesOver(Terms, CodecDocIds)
          /\ compressed_index = EmptyDict
          /\ sorted_ids = <<>>
       \/ /\ cpc = "compact" /\ n = 0 /\ byte_list = <<>>
          /\ index_in = EmptyDict /\ compressed_index \in CompactIndexes
          /\ sorted_ids = <<>>
       \/ /\ cpc = "postings" /\ n = 0 /\ byte_list = <<>>
          /\ index_in = EmptyDict /\ compressed_index = EmptyDict
          /\ sorted_ids \in PostingsLists

\* byte_list = vbyte_encode_number(n)
VbyteEncodeNumber ==
    /\ cpc = "number"
    /\ LET e == vbyte_encode_number(n)
       IN  IF e.raised
           THEN cpc' = "encode_raised" /\ UNCHANGED byte_list
           ELSE cpc' = "encoded" /\ byte_list' = e.value
    /\ UNCHANGED <<n, numbers, index_in, compressed_index, decompressed>>
    /\ UNCHANGED gap_vars
    /\ UNCHANGED <<maint_vars, build_vars>>

\* numbers = vbyte_decode_stream(byte_list), on an encoder's output or on a
\* stream the caller supplies.
VbyteDecodeStream ==
    /\ cpc \in {"encoded", "stream"}
    /\ numbers' = vbyte_decode_stream(byte_list)
    /\ cpc' = IF cpc = "encoded" THEN "roundtrip" ELSE "decoded"
    /\ UNCHANGED <<n, byte_list, index_in, compressed_index, decompressed>>
    /\ UNCHANGED gap_vars
    /\ UNCHANGED <<maint_vars, build_vars>>

\* compressed_index = compress_index(index_in)
CompressIndex ==
    /\ cpc = "index"
    /\ LET c == compress_index(index_in)
       IN  IF c.raised
           THEN cpc' = "compress_raised" /\ UNCHANGED compressed_index
           ELSE cpc' = "compressed" /\ compressed_index' = c.value
    /\ UNCHANGED <<n, byte_list, numbers, index_in, decompressed>>
    /\ UNCHANGED gap_vars
    /\ UNCHANGED <<maint_vars, build_vars>>

\* decompressed = decompress_index(compressed_index), on compress_index's output
\* or on a compact index the caller supplies.
DecompressIndex ==
    /\ cpc \in {"compressed", "compact"}
    /\ decompressed' = decompress_index(compressed_index)
    /\ cpc' = IF cpc = "compressed" THEN "index_roundtrip" ELSE "decompressed"
    /\ UNCHANGED <<n, byte_list, numbers, index_in, compressed_index>>
    /\ UNCHANGED gap_vars
    /\ UNCHANGED <<maint_vars, build_vars>>

\* gaps_out = gap_encode(sorted_ids)
GapEncode ==
    /\ cpc = "postings"
    /\ gaps_out' = gap_encode(sorted_ids)
    /\ cpc' = "gap_encoded"
    /\ UNCHANGED <<n, byte_list, numbers, index_in, compressed_index, decompressed,
                   sorted_ids, ids_out>>
    /\ UNCHANGED <<maint_vars, build_vars>>

\* ids_out = gap_decode(gaps_out)
GapDecode ==
    /\ cpc = "gap_encoded"
    /\ ids_out' = gap_decode(gaps_out)
    /\ cpc' = "gap_roundtrip"
    /\ UNCHANGED <<n, byte_list, numbers, index_in, compressed_index, decompressed,
                   sorted_ids, gaps_out>>
    /\ UNCHANGED <<maint_vars, build_vars>>

NextCodec ==
    \/ VbyteEncodeNumber
    \/ VbyteDecodeStream
    \/ CompressIndex
    \/ DecompressIndex
    \/ GapEncode
    \/ GapDecode

----------------------------------------------------------------------------
(* maintenance.py *)

\* doc_id in postings
Contains(postings, doc_id) == \E i \in 1..Len(postings) : postings[i] = doc_id

\* list.sort(): insertion of each element into an ascending result.
RECURSIVE insert_sorted(_, _)
insert_sorted(s, x) ==
    IF s = <<>> THEN <<x>>
    ELSE IF x < Head(s) THEN <<x>> \o s
    ELSE <<Head(s)>> \o insert_sorted(Tail(s), x)

RECURSIVE list_sort(_)
list_sort(s) ==
    IF s = <<>> THEN <<>>
    ELSE insert_sorted(list_sort(Tail(s)), Head(s))

\* list.remove(x): drops the first occurrence of x.
RECURSIVE list_remove(_, _)
list_remove(s, x) ==
    IF s = <<>> THEN <<>>
    ELSE IF Head(s) = x THEN Tail(s)
    ELSE <<Head(s)>> \o list_remove(Tail(s), x)

\* dict.setdefault(term, []) as the dict it leaves behind.
setdefault(idx, term) ==
    IF term \in DOMAIN idx THEN idx
    ELSE [t \in DOMAIN idx \cup {term} |-> IF t = term THEN <<>> ELSE idx[t]]

\* An add_document that appends without sorting.
RECURSIVE add_document_no_sort(_, _, _)
add_document_no_sort(idx, doc_id, tokens) ==
    IF tokens = <<>> THEN idx
    ELSE LET term == Head(tokens)
             with_term == setdefault(idx, term)
             postings == with_term[term]
             after == IF ~Contains(postings, doc_id)
                      THEN [with_term EXCEPT ![term] = Append(postings, doc_id)]
                      ELSE with_term
         IN  add_document_no_sort(after, doc_id, Tail(tokens))

\* An add_document without the membership test.
RECURSIVE add_document_no_test(_, _, _)
add_document_no_test(idx, doc_id, tokens) ==
    IF tokens = <<>> THEN idx
    ELSE LET term == Head(tokens)
             with_term == setdefault(idx, term)
             postings == with_term[term]
             after == [with_term EXCEPT ![term] = list_sort(Append(postings, doc_id))]
         IN  add_document_no_test(after, doc_id, Tail(tokens))

\* An add_document that returns after the first token.
add_document_first_token(idx, doc_id, tokens) ==
    IF tokens = <<>> THEN idx
    ELSE LET term == Head(tokens)
             with_term == setdefault(idx, term)
             postings == with_term[term]
         IN  IF ~Contains(postings, doc_id)
             THEN [with_term EXCEPT ![term] = list_sort(Append(postings, doc_id))]
             ELSE with_term

\* add_document: for term in tokens: setdefault, then append and sort unless
\* doc_id is already in the postings.
RECURSIVE add_document(_, _, _)
add_document(idx, doc_id, tokens) ==
    IF tokens = <<>> THEN idx
    ELSE LET term == Head(tokens)
             with_term == setdefault(idx, term)
             postings == with_term[term]
             after == IF ~Contains(postings, doc_id)
                      THEN [with_term EXCEPT
                              ![term] = list_sort(Append(postings, doc_id))]
                      ELSE with_term
         IN  add_document(after, doc_id, Tail(tokens))

\* A remove_document that keeps the emptied terms.
remove_document_keep_empty(idx, doc_id) ==
    [t \in DOMAIN idx |->
        IF Contains(idx[t], doc_id) THEN list_remove(idx[t], doc_id) ELSE idx[t]]

\* A remove_document that deletes every term that held doc_id.
remove_document_drop_terms(idx, doc_id) ==
    [t \in {u \in DOMAIN idx : ~Contains(idx[u], doc_id)} |-> idx[t]]

\* remove_document: the first loop removes doc_id from every postings list that
\* holds it and collects the terms it emptied; the second loop deletes them.
remove_document(idx, doc_id) ==
    LET after == [t \in DOMAIN idx |->
                    IF Contains(idx[t], doc_id)
                    THEN list_remove(idx[t], doc_id) ELSE idx[t]]
        terms_to_delete == {t \in DOMAIN idx :
                                Contains(idx[t], doc_id) /\ after[t] = <<>>}
    IN  [t \in (DOMAIN idx) \ terms_to_delete |-> after[t]]

----------------------------------------------------------------------------
(* The maintenance API's caller *)

MaxDocId == 2
DocIds == 0..MaxDocId
MaxTokens == 2
TokenLists == SeqsUpTo(Terms, MaxTokens)

NoCall == [op |-> "none", doc_id |-> 0, tokens |-> <<>>]

NoFreshAdd == [stage |-> "none", doc_id |-> 0, before |-> EmptyDict]

\* doc_id is in no postings list of idx
Absent(idx, doc_id) == \A t \in DOMAIN idx : ~Contains(idx[t], doc_id)

MaintIdle ==
    /\ index = EmptyDict /\ prev_index = EmptyDict
    /\ last_call = NoCall /\ repeat = FALSE /\ fresh_add = NoFreshAdd

\* The index a builder left: any valid index.
InitMaintInputs ==
    /\ index \in IndexesOver(Terms, DocIds)
    /\ prev_index = index
    /\ last_call = NoCall
    /\ repeat = FALSE
    /\ fresh_add = NoFreshAdd

\* add_document(index, doc_id, tokens)
AddDocument ==
    \E doc_id \in DocIds, tokens \in TokenLists :
        LET call == [op |-> "add", doc_id |-> doc_id, tokens |-> tokens]
        IN  /\ index' = add_document(index, doc_id, tokens)
            /\ prev_index' = index
            /\ last_call' = call
            /\ repeat' = (last_call = call)
            /\ fresh_add' = IF Absent(index, doc_id)
                            THEN [stage |-> "added", doc_id |-> doc_id,
                                  before |-> index]
                            ELSE NoFreshAdd
            /\ UNCHANGED <<codec_vars, build_vars>>

\* remove_document(index, doc_id)
RemoveDocument ==
    \E doc_id \in DocIds :
        LET call == [op |-> "remove", doc_id |-> doc_id, tokens |-> <<>>]
        IN  /\ index' = remove_document(index, doc_id)
            /\ prev_index' = index
            /\ last_call' = call
            /\ repeat' = (last_call = call)
            /\ fresh_add' = IF fresh_add.stage = "added" /\ fresh_add.doc_id = doc_id
                            THEN [fresh_add EXCEPT !.stage = "removed"]
                            ELSE NoFreshAdd
            /\ UNCHANGED <<codec_vars, build_vars>>

NextMaint ==
    \/ AddDocument
    \/ RemoveDocument

----------------------------------------------------------------------------
(* preprocess_build_index.py and parallel_indexing.py *)

\* A document whose tokens value is None: iterating it raises TypeError.
NoneTokens == <<"None">>

\* index[term].add(doc_id) on a defaultdict(set), as the dict it leaves behind.
set_add(idx, term, doc_id) ==
    [t \in DOMAIN idx \cup {term} |->
        (IF t \in DOMAIN idx THEN idx[t] ELSE {})
            \cup (IF t = term THEN {doc_id} ELSE {})]

\* for term in tokens: index[term].add(doc_id)
RECURSIVE add_terms(_, _, _)
add_terms(idx, doc_id, tokens) ==
    IF tokens = <<>> THEN idx
    ELSE add_terms(set_add(idx, Head(tokens), doc_id), doc_id, Tail(tokens))

\* list(enumerate(preprocessed_docs)): the (doc_id, tokens) pairs, ids from 0.
enumerate(docs) == [i \in 1..Len(docs) |-> <<i - 1, docs[i]>>]

\* build_inverted_index's loop over enumerate(preprocessed_docs); iterating a
\* None tokens value raises and abandons the loop.
RECURSIVE build_inverted_index_loop(_, _)
build_inverted_index_loop(inverted_index, doc_pairs) ==
    IF doc_pairs = <<>> THEN Return(inverted_index)
    ELSE LET doc_id == Head(doc_pairs)[1]
             tokens == Head(doc_pairs)[2]
         IN  IF tokens = NoneTokens THEN Raise
             ELSE build_inverted_index_loop(add_terms(inverted_index, doc_id, tokens),
                                            Tail(doc_pairs))

\* build_inverted_index: sets per term, then sorted(list(doc_ids)) per term.
build_inverted_index(docs) ==
    LET sets == build_inverted_index_loop(EmptyDict, enumerate(docs))
    IN  IF sets.raised THEN Raise
        ELSE Return([t \in DOMAIN sets.value |-> sorted(sets.value[t])])

\* _build_partial_index's loop over one chunk's (doc_id, tokens) pairs.
RECURSIVE build_partial_index_loop(_, _)
build_partial_index_loop(idx, doc_pairs) ==
    IF doc_pairs = <<>> THEN Return(idx)
    ELSE LET doc_id == Head(doc_pairs)[1]
             tokens == Head(doc_pairs)[2]
         IN  IF tokens = NoneTokens THEN Raise
             ELSE build_partial_index_loop(add_terms(idx, doc_id, tokens),
                                           Tail(doc_pairs))

\* _build_partial_index: term -> set of doc ids, for one chunk.
_build_partial_index(doc_pairs) == build_partial_index_loop(EmptyDict, doc_pairs)

\* A merge that assigns instead of updating.
merge_indexes_assign(base, other) ==
    [t \in DOMAIN base \cup DOMAIN other |->
        IF t \in DOMAIN other THEN other[t] ELSE base[t]]

\* _merge_indexes: base[term].update(doc_ids) for every term of other.
_merge_indexes(base, other) ==
    [t \in DOMAIN base \cup DOMAIN other |->
        (IF t \in DOMAIN base THEN base[t] ELSE {})
            \cup (IF t \in DOMAIN other THEN other[t] ELSE {})]

\* The worker count the builder uses: the assignment on the first line of
\* build_inverted_index_parallel overrides the argument.
n_workers == 4

Max(x, y) == IF x >= y THEN x ELSE y

\* chunk_size = max(1, len(doc_pairs) // n_workers)
chunk_size(doc_pairs) == Max(1, Len(doc_pairs) \div n_workers)

\* s[i:j] for 0 <= i <= j
Slice(s, i, j) ==
    LET hi == IF j > Len(s) THEN Len(s) ELSE j
    IN  IF i >= hi THEN <<>> ELSE [k \in 1..(hi - i) |-> s[i + k]]

\* A chunking that makes len(doc_pairs) // chunk_size chunks and so loses the
\* pairs after the last full chunk.
make_chunks_full_only(doc_pairs) ==
    LET size == chunk_size(doc_pairs)
        count == Len(doc_pairs) \div size
    IN  [c \in 1..count |-> Slice(doc_pairs, (c - 1) * size, (c - 1) * size + size)]

\* [doc_pairs[i:i + chunk_size] for i in range(0, len(doc_pairs), chunk_size)]
make_chunks(doc_pairs) ==
    LET size == chunk_size(doc_pairs)
        count == (Len(doc_pairs) + size - 1) \div size
    IN  [c \in 1..count |-> Slice(doc_pairs, (c - 1) * size, (c - 1) * size + size)]

----------------------------------------------------------------------------
(* The builders' caller, the pool's workers, and the merge *)

MaxDocs == 5
MaxWorkersArg == 2

\* Documents: no tokens, one term, two terms with a repeat, and a None.
DocChoices == {<<>>, <<"a">>, <<"b", "a", "b">>, NoneTokens}

\* Longer corpora, one per length, for which len(doc_pairs) // n_workers
\* exceeds 1 and the last chunk is a remainder.
MaxLongDocs == 9
LongCorpus(N) == [i \in 1..N |-> IF i % 2 = 1 THEN <<"a">> ELSE <<"b", "a", "b">>]
Corpora ==
    SeqsUpTo(DocChoices, MaxDocs)
        \cup {LongCorpus(N) : N \in (MaxDocs + 1)..MaxLongDocs}

BuildIdle ==
    /\ preprocessed_docs = <<>> /\ n_workers_arg = 1
    /\ spc = "idle" /\ index_seq = EmptyDict
    /\ bpc = "idle" /\ chunks = <<>> /\ task = <<>> /\ partial_indexes = <<>>
    /\ global_index = EmptyDict /\ merged = 0 /\ index_par = EmptyDict

InitBuildInputs ==
    /\ preprocessed_docs \in Corpora
    /\ n_workers_arg \in 1..MaxWorkersArg
    /\ spc = "start" /\ index_seq = EmptyDict
    /\ bpc = "start" /\ chunks = <<>> /\ task = <<>> /\ partial_indexes = <<>>
    /\ global_index = EmptyDict /\ merged = 0 /\ index_par = EmptyDict

\* index_seq = build_inverted_index(preprocessed_docs), called before the
\* parallel builder as main does.
BuildSequential ==
    /\ spc = "start"
    /\ LET r == build_inverted_index(preprocessed_docs)
       IN  IF r.raised
           THEN spc' = "raised" /\ UNCHANGED index_seq
           ELSE spc' = "done" /\ index_seq' = r.value
    /\ UNCHANGED <<preprocessed_docs, n_workers_arg, bpc, chunks, task,
                   partial_indexes, global_index, merged, index_par>>
    /\ UNCHANGED <<codec_vars, maint_vars>>

\* build_inverted_index_parallel up to pool.map: the pairs are chunked and the
\* chunks queued as the pool's tasks.
StartParallel ==
    /\ spc # "start" /\ bpc = "start"
    /\ chunks' = make_chunks(enumerate(preprocessed_docs))
    /\ task' = [c \in 1..Len(chunks') |-> "pending"]
    /\ partial_indexes' = [c \in 1..Len(chunks') |-> EmptyDict]
    /\ bpc' = "map"
    /\ UNCHANGED <<preprocessed_docs, n_workers_arg, spc, index_seq,
                   global_index, merged, index_par>>
    /\ UNCHANGED <<codec_vars, maint_vars>>

Running == {c \in 1..Len(task) : task[c] = "running"}

\* A free pool process takes the next queued chunk.
WorkerStart ==
    /\ bpc = "map"
    /\ Cardinality(Running) < n_workers
    /\ \E c \in 1..Len(task) :
          /\ task[c] = "pending"
          /\ \A d \in 1..(c - 1) : task[d] # "pending"
          /\ task' = [task EXCEPT ![c] = "running"]
    /\ UNCHANGED <<preprocessed_docs, n_workers_arg, spc, index_seq, bpc, chunks,
                   partial_indexes, global_index, merged, index_par>>
    /\ UNCHANGED <<codec_vars, maint_vars>>

\* A pool process finishes _build_partial_index on its chunk: the partial index
\* is its result, or the task fails with the exception.
WorkerFinish ==
    /\ bpc = "map"
    /\ \E c \in 1..Len(task) :
          /\ task[c] = "running"
          /\ LET r == _build_partial_index(chunks[c])
             IN  IF r.raised
                 THEN /\ task' = [task EXCEPT ![c] = "failed"]
                      /\ UNCHANGED partial_indexes
                 ELSE /\ task' = [task EXCEPT ![c] = "done"]
                      /\ partial_indexes' = [partial_indexes EXCEPT ![c] = r.value]
    /\ UNCHANGED <<preprocessed_docs, n_workers_arg, spc, index_seq, bpc, chunks,
                   global_index, merged, index_par>>
    /\ UNCHANGED <<codec_vars, maint_vars>>

\* A pool.map that returns although a task failed.
PoolMapReturnDespiteFailure ==
    /\ bpc = "map"
    /\ \A c \in 1..Len(task) : task[c] \in {"done", "failed"}
    /\ bpc' = "merge"
    /\ global_index' = EmptyDict
    /\ merged' = 0
    /\ UNCHANGED <<preprocessed_docs, n_workers_arg, spc, index_seq, chunks, task,
                   partial_indexes, index_par>>
    /\ UNCHANGED <<codec_vars, maint_vars>>

\* A pool.map that returns as soon as no chunk is queued, without joining the
\* workers still running.
PoolMapReturnEarly ==
    /\ bpc = "map"
    /\ \A c \in 1..Len(task) : task[c] \in {"done", "running"}
    /\ bpc' = "merge"
    /\ global_index' = EmptyDict
    /\ merged' = 0
    /\ UNCHANGED <<preprocessed_docs, n_workers_arg, spc, index_seq, chunks, task,
                   partial_indexes, index_par>>
    /\ UNCHANGED <<codec_vars, maint_vars>>

\* pool.map returns the list of results once every task has one; the pool is
\* closed and global_index starts empty.
PoolMapReturn ==
    /\ bpc = "map"
    /\ \A c \in 1..Len(task) : task[c] = "done"
    /\ bpc' = "merge"
    /\ global_index' = EmptyDict
    /\ merged' = 0
    /\ UNCHANGED <<preprocessed_docs, n_workers_arg, spc, index_seq, chunks, task,
                   partial_indexes, index_par>>
    /\ UNCHANGED <<codec_vars, maint_vars>>

\* Once every task has finished and one has failed, pool.map re-raises the
\* failed task's exception; it leaves the with block, which terminates the
\* pool, and build_inverted_index_parallel.
PoolMapRaise ==
    /\ bpc = "map"
    /\ \A c \in 1..Len(task) : task[c] \in {"done", "failed"}
    /\ \E c \in 1..Len(task) : task[c] = "failed"
    /\ bpc' = "raised"
    /\ UNCHANGED <<preprocessed_docs, n_workers_arg, spc, index_seq, chunks, task,
                   partial_indexes, global_index, merged, index_par>>
    /\ UNCHANGED <<codec_vars, maint_vars>>

\* One iteration of: for part in partial_indexes: _merge_indexes(global_index, part)
MergeStep ==
    /\ bpc = "merge"
    /\ merged < Len(partial_indexes)
    /\ global_index' = _merge_indexes(global_index, partial_indexes[merged + 1])
    /\ merged' = merged + 1
    /\ UNCHANGED <<preprocessed_docs, n_workers_arg, spc, index_seq, bpc, chunks,
                   task, partial_indexes, index_par>>
    /\ UNCHANGED <<codec_vars, maint_vars>>

\* return {term: sorted(doc_ids) for term, doc_ids in global_index.items()}
ReturnIndex ==
    /\ bpc = "merge"
    /\ merged = Len(partial_indexes)
    /\ index_par' = [t \in DOMAIN global_index |-> sorted(global_index[t])]
    /\ bpc' = "done"
    /\ UNCHANGED <<preprocessed_docs, n_workers_arg, spc, index_seq, chunks, task,
                   partial_indexes, global_index, merged>>
    /\ UNCHANGED <<codec_vars, maint_vars>>

NextBuild ==
    \/ BuildSequential
    \/ StartParallel
    \/ WorkerStart
    \/ WorkerFinish
    \/ PoolMapReturn
    \/ PoolMapRaise
    \/ MergeStep
    \/ ReturnIndex

----------------------------------------------------------------------------
(* Specifications *)

InitCodec == InitCodecInputs /\ MaintIdle /\ BuildIdle
SpecCodec == InitCodec /\ [][NextCodec]_vars

InitMaint == CodecIdle /\ InitMaintInputs /\ BuildIdle
SpecMaint == InitMaint /\ [][NextMaint]_vars

InitBuild == CodecIdle /\ MaintIdle /\ InitBuildInputs
SpecBuild == InitBuild /\ [][NextBuild]_vars

Init == InitCodec \/ InitMaint \/ InitBuild
Next == NextCodec \/ NextMaint \/ NextBuild
Spec == Init /\ [][Next]_vars

----------------------------------------------------------------------------
(* Properties *)

\* int.bit_length() of a non-negative int
RECURSIVE bit_length(_)
bit_length(x) == IF x = 0 THEN 0 ELSE 1 + bit_length(x \div 2)

CeilDiv(x, y) == (x + y - 1) \div y

HasNone(docs) == \E i \in 1..Len(docs) : docs[i] = NoneTokens

\* C1: on a corpus of token lists, for every worker count the caller passes,
\* build_inverted_index_parallel returns (it does not raise), and the index it
\* returns equals the one build_inverted_index returns: same terms, same
\* postings.
C1_ParallelEqualsSequential ==
    /\ ~HasNone(preprocessed_docs) => bpc # "raised" /\ spc # "raised"
    /\ bpc = "done" => spc = "done" /\ index_par = index_seq

\* A five-document corpus with an empty document, built in five chunks for a
\* requested worker count of 2, whose term "a" has postings from several chunks.
C1_Witness ==
    /\ bpc = "done"
    /\ n_workers_arg = 2
    /\ Len(preprocessed_docs) = 5
    /\ \E i \in 1..5 : preprocessed_docs[i] = <<>>
    /\ Len(chunks) = 5
    /\ "a" \in DOMAIN index_par /\ Len(index_par["a"]) >= 3
    /\ "b" \in DOMAIN index_par

\* C2: decompress_index(compress_index(I)) = I for every index I whose postings
\* are non-empty, strictly increasing lists of non-negative ints; compress_index
\* does not raise on such an index.
C2_IndexRoundTrip ==
    /\ cpc # "compress_raised"
    /\ cpc = "index_roundtrip" => decompressed = Return(index_in)

C2_Witness ==
    /\ cpc = "index_roundtrip"
    /\ DOMAIN index_in = Terms
    /\ index_in["a"] = <<1, 128, 16384>>
    /\ Len(compressed_index["a"]) = 4

\* C3: vbyte_decode_stream(vbyte_encode_number(n)) = [n] for every n >= 0, and
\* vbyte_encode_number does not raise on n >= 0.
C3_NumberRoundTrip ==
    /\ cpc = "encode_raised" => n < 0
    /\ cpc = "roundtrip" => numbers = Return(<<n>>)

C3_Witness == cpc = "roundtrip" /\ n = 16384 /\ Len(byte_list) = 3

\* C4: after any sequence of add_document and remove_document calls on an index
\* that starts valid, every postings list is strictly increasing and non-empty.
C4_MaintenanceKeepsValid == ValidIndex(index)

\* add_document has inserted doc 1 between 0 and 2.
C4_Witness ==
    /\ last_call.op = "add" /\ last_call.doc_id = 1
    /\ "a" \in DOMAIN prev_index /\ prev_index["a"] = <<0, 2>>
    /\ index["a"] = <<0, 1, 2>>

\* C5: after remove_document(I, d) no postings list contains d, no term maps to
\* an empty list, and the terms whose only document was d are gone.
C5_RemoveDocument ==
    last_call.op = "remove" =>
        /\ \A t \in DOMAIN index :
              ~Contains(index[t], last_call.doc_id) /\ index[t] # <<>>
        /\ \A t \in DOMAIN prev_index :
              prev_index[t] = <<last_call.doc_id>> => t \notin DOMAIN index

\* remove_document deleted one term and shortened the postings of another.
C5_Witness ==
    /\ last_call.op = "remove"
    /\ \E t \in DOMAIN prev_index : t \notin DOMAIN index
    /\ \E t \in DOMAIN index :
          Contains(prev_index[t], last_call.doc_id) /\ Len(index[t]) >= 1

\* C6: a second add_document with the same doc_id and tokens leaves the index as
\* the first call left it.
C6_AddIdempotent ==
    (repeat /\ last_call.op = "add") => index = prev_index

\* The same add_document call twice, with a repeated token.
C6_Witness ==
    /\ repeat /\ last_call.op = "add"
    /\ last_call.tokens = <<"a", "a">>
    /\ "b" \in DOMAIN index

Encoded == cpc \in {"encoded", "roundtrip"}

\* C7 as stated: len(vbyte_encode_number(n)) = max(1, ceil(bit_length(n+1)/7)).
C7_ByteCountAsClaimed ==
    Encoded => Len(byte_list) = Max(1, CeilDiv(bit_length(n + 1), 7))

\* C7 amended: len(vbyte_encode_number(n)) = max(1, ceil(bit_length(n)/7)) for
\* every n >= 0: one byte for 0, two for 300.
C7_ByteCount ==
    Encoded => Len(byte_list) = Max(1, CeilDiv(bit_length(n), 7))

\* 127 fills one 7-bit group exactly and is encoded in one byte.
C7_Witness == cpc = "encoded" /\ n = 127 /\ Len(byte_list) = 1

\* C8: byte i (0-based) of vbyte_encode_number(n) carries bits 7i..7i+6 of n in
\* its low 7 bits, the terminator bit 0x80 is set on the last byte and on no
\* earlier one, and every byte is in 0..255.
C8_LittleEndianGroups ==
    Encoded =>
        \A i \in 1..Len(byte_list) :
            /\ byte_list[i] \in 0..255
            /\ byte_list[i] % 128 = (n \div (128 ^ (i - 1))) % 128
            /\ (byte_list[i] >= 128) <=> (i = Len(byte_list))

C8_Witness == cpc = "encoded" /\ n = 16385 /\ byte_list = <<1, 0, 129>>

\* The stream ends mid-number: it is non-empty and its last byte has no
\* terminator bit.
EndsMidNumber(bytes_) == bytes_ # <<>> /\ bytes_[Len(bytes_)] < 128

\* C9: vbyte_decode_stream raises exactly on the streams that end mid-number,
\* and decompress_index raises exactly when some term's stream does.
C9_MalformedStream ==
    /\ cpc = "decoded" => (numbers.raised <=> EndsMidNumber(byte_list))
    /\ cpc = "decompressed" =>
          (decompressed.raised <=>
              \E t \in DOMAIN compressed_index : EndsMidNumber(compressed_index[t]))

\* A complete number followed by an unterminated one.
C9_Witness ==
    /\ cpc = "decoded" /\ numbers.raised
    /\ Len(byte_list) = 3 /\ byte_list[1] >= 128 /\ byte_list[3] < 128

AnyFailed == \E c \in 1..Len(task) : task[c] = "failed"

\* C10: once a worker task has failed, build_inverted_index_parallel never
\* merges and never returns an index; when every task has finished the only
\* way on is the exception, and it raises only for a failed task.
C10_AllOrNothing ==
    /\ AnyFailed =>
          /\ bpc \in {"map", "raised"}
          /\ merged = 0 /\ global_index = EmptyDict /\ index_par = EmptyDict
    /\ (bpc = "map" /\ AnyFailed /\ Running = {}
            /\ \A c \in 1..Len(task) : task[c] # "pending") =>
          ENABLED PoolMapRaise /\ ~ENABLED PoolMapReturn
    /\ bpc = "raised" => AnyFailed

\* The build raised although other chunks had produced partial indexes.
C10_Witness ==
    /\ bpc = "raised"
    /\ \E c \in 1..Len(task) : task[c] = "done" /\ partial_indexes[c] # EmptyDict
    /\ task[Len(task)] = "failed"

AllDone == \A c \in 1..Len(task) : task[c] = "done"

\* C11: in every interleaving of the workers, the merge starts only after every
\* worker has completed its chunk: no merge step runs, and nothing is merged or
\* returned, while a task is queued, running or failed; a worker's step writes
\* the partial index of its own chunk alone and never the merge accumulator.
C11_BarrierBeforeMerge ==
    /\ [](~AllDone =>
            /\ bpc \in {"start", "map", "raised", "idle"}
            /\ merged = 0 /\ global_index = EmptyDict)
    /\ [][/\ (merged' # merged \/ global_index' # global_index) => AllDone
          /\ \A c \in 1..Len(task) :
                (bpc = "map" /\ partial_indexes'[c] # partial_indexes[c]) =>
                    /\ task[c] = "running" /\ task'[c] = "done"
                    /\ \A d \in 1..Len(task) :
                          d # c => /\ partial_indexes'[d] = partial_indexes[d]
                                   /\ task'[d] = task[d]
                    /\ global_index' = global_index]_vars

\* Seven chunks went through the four-process pool and the merge has read two
\* of the partial indexes.
C11_Witness ==
    /\ bpc = "merge" /\ merged = 2
    /\ Len(task) = 7 /\ AllDone
    /\ "b" \in DOMAIN global_index

\* C12: for every sorted, duplicate-free list S of non-negative ints,
\* gap_decode(gap_encode(S)) = S, gap_encode(S) has one non-negative gap per
\* posting and starts with S[0], and both functions map [] to [].
C12_GapRoundTrip ==
    /\ cpc \in {"gap_encoded", "gap_roundtrip"} =>
          /\ Len(gaps_out) = Len(sorted_ids)
          /\ \A i \in 1..Len(gaps_out) : gaps_out[i] >= 0
          /\ sorted_ids # <<>> => gaps_out[1] = sorted_ids[1]
          /\ sorted_ids = <<>> => gaps_out = <<>>
    /\ cpc = "gap_roundtrip" =>
          /\ ids_out = sorted_ids
          /\ gaps_out = <<>> => ids_out = <<>>

C12_Witness ==
    /\ cpc = "gap_roundtrip"
    /\ sorted_ids = <<2, 127, 128, 16384>>
    /\ gaps_out = <<2, 125, 1, 16256>>

Chunked == bpc \in {"map", "merge", "done", "raised"}

\* C13 as stated: for the worker count w the caller passes, the partition has at
\* most w chunks, sized by w (max(1, N // w) documents each), and at most one
\* chunk, the one that absorbs the remainder, has another size.
C13_AtMostWChunks ==
    Chunked =>
        LET N == Len(preprocessed_docs)
            size == Max(1, N \div n_workers_arg)
        IN  /\ Len(chunks) <= n_workers_arg
            /\ Cardinality({c \in 1..Len(chunks) : Len(chunks[c]) # size}) <= 1

RECURSIVE Concat(_)
Concat(ss) == IF ss = <<>> THEN <<>> ELSE Head(ss) \o Concat(Tail(ss))

\* C14: the chunks are contiguous, disjoint and cover the input: concatenated in
\* order they are exactly the (doc_id, tokens) pairs with ids 0..N-1, and no
\* chunk is empty.
C14_ChunksPartition ==
    Chunked =>
        /\ Concat(chunks) =
              [i \in 1..Len(preprocessed_docs) |-> <<i - 1, preprocessed_docs[i]>>]
        /\ \A c \in 1..Len(chunks) : chunks[c] # <<>>

\* Nine documents: four chunks of two and a remainder chunk holding document 8.
C14_Witness ==
    /\ Chunked
    /\ Len(preprocessed_docs) = 9
    /\ Len(chunks) = 5
    /\ Len(chunks[1]) = 2
    /\ chunks[5] = << <<8, <<"a">>>> >>

\* The set of the elements of a list
Elems(s) == {s[i] : i \in 1..Len(s)}

\* C15: after add_document(I, d, T) each term of T maps to its previous postings
\* (none, if the term was absent) with d inserted in sorted position, every
\* other term keeps its postings list, and no term is removed; so d stays in
\* the postings an earlier add_document with other tokens gave it.
C15_AddDocumentFrame ==
    last_call.op = "add" =>
        LET d == last_call.doc_id
            T == Elems(last_call.tokens)
        IN  /\ DOMAIN index = DOMAIN prev_index \cup T
            /\ \A t \in T :
                  index[t] = sorted((IF t \in DOMAIN prev_index
                                     THEN Elems(prev_index[t]) ELSE {}) \cup {d})
            /\ \A t \in (DOMAIN prev_index) \ T : index[t] = prev_index[t]

\* Document 1, already under "a", is added again with the repeated token "b", a
\* new term: it starts the postings of "b" and stays in the postings of "a".
C15_Witness ==
    /\ last_call = [op |-> "add", doc_id |-> 1, tokens |-> <<"b", "b">>]
    /\ DOMAIN prev_index = {"a"} /\ prev_index["a"] = <<0, 1, 2>>
    /\ index["a"] = <<0, 1, 2>> /\ index["b"] = <<1>>

\* C16: add_document(I, d, T) for a d in no postings list of I, followed by
\* remove_document(I, d), leaves an index equal to I; remove_document of a d in
\* no postings list leaves the index as it was.
C16_AddThenRemoveRestores ==
    /\ fresh_add.stage = "removed" => index = fresh_add.before
    /\ (last_call.op = "remove" /\ Absent(prev_index, last_call.doc_id)) =>
          index = prev_index

\* Document 1 was added under an existing term and a new one, then removed: the
\* new term is gone again.
C16_Witness ==
    /\ fresh_add.stage = "removed" /\ fresh_add.doc_id = 1
    /\ DOMAIN fresh_add.before = {"a"} /\ fresh_add.before["a"] = <<0, 2>>
    /\ DOMAIN prev_index = {"a", "b"} /\ prev_index["a"] = <<0, 1, 2>>
    /\ index = fresh_add.before

=============================================================================
